---- MODULE Spec2Model ----
(***************************************************************************)
(* A model of export_structure.py: the recursive walk of a Firestore       *)
(* database (main, export_structure, describe_collection,                  *)
(* _iter_documents_with_limit, describe_document) and the in-place merge   *)
(* of structure dictionaries (merge_collection_structures).                *)
(*                                                                         *)
(* Python dictionaries are objects: every structure dictionary is a node   *)
(* of `heap`, named by its index, so that sharing between a merge target   *)
(* and a merge source is something the model can express.                  *)
(***************************************************************************)
EXTENDS Integers, Sequences, FiniteSets, TLC

VARIABLES
    env,                    \* os.environ after load_dotenv(): variable name -> text
    SAMPLE_DOCUMENT_LIMIT,  \* the module global of that name
    SAMPLE_ORDER_FIELD,     \* the module global of that name
    db,                     \* the store: the documents of the root collection(s)
    pc,                     \* where main() is
    roots_pos,              \* how many root collections export_structure has consumed
    stack,                  \* the call stack of describe_collection / describe_document
    heap,                   \* the structure dictionaries
    structure,              \* export_structure's structure["collections"]: name -> node
    output,                 \* what write_output has written (NoOutput before)
    exc,                    \* the exception propagating out of main, if any
    ordering_errors,        \* how many ordered queries the store has failed so far
    mtarget,                \* merge harness: the accumulator node (0: none)
    msources,               \* merge harness: the sources merged so far, with their trees
    mpair                   \* merge harness: a pair merged in both orders

vars == <<env, SAMPLE_DOCUMENT_LIMIT, SAMPLE_ORDER_FIELD, db, pc, roots_pos, stack, heap,
          structure, output, exc, ordering_errors, mtarget, msources, mpair>>

(***************************************************************************)
(* Bounds of the model.                                                    *)
(***************************************************************************)
\* documents in the whole database (all collections, all depths)
MaxDocs == 4
\* largest value of SAMPLE_DOCUMENT_LIMIT set in the environment
MaxLimit == 1
\* ordered queries of one export the store fails with an ordering error
MaxOrderingErrors == 1
\* merges into one accumulator in the merge harness
MaxMerges == 2

(***************************************************************************)
(* Program constants.                                                      *)
(***************************************************************************)
DEFAULT_SAMPLE_DOCUMENT_LIMIT == 100
DEFAULT_SAMPLE_ORDER_FIELD == "__name__"

\* Path(__file__).resolve().parent
PROJECT_ROOT == "/app"

EmptyMap == [k \in {} |-> k]

Pick(S) == CHOOSE x \in S : TRUE

Min(a, b) == IF a < b THEN a ELSE b

(***************************************************************************)
(* Values of document fields.  A value is its Python class and its repr;   *)
(* type(value).__name__ is the class name.                                 *)
(***************************************************************************)
PyStr(s) == [cls |-> "str", repr |-> s]
PyInt(s) == [cls |-> "int", repr |-> s]

type_name(value) == value.cls

(***************************************************************************)
(* Structure dictionaries.  hasF / hasS say whether the keys "fields" and  *)
(* "subcollections" are present; F maps field names to type names, S maps  *)
(* sub-collection names to nodes of the heap.                              *)
(***************************************************************************)
Node(hasF, F, hasS, S) == [hasF |-> hasF, F |-> F, hasS |-> hasS, S |-> S]

\* The tree of values below node n (what json.dumps would see).
RECURSIVE Tree(_, _)
Tree(h, n) ==
    [hasF |-> h[n].hasF, F |-> h[n].F, hasS |-> h[n].hasS,
     S |-> [k \in DOMAIN h[n].S |-> Tree(h, h[n].S[k])]]

\* A tree loaded into the heap as fresh nodes; the root is node Len(h) + 1.
RECURSIVE LoadSubs(_, _, _, _)
LoadSubs(h, dst, tree, names) ==
    IF names = {} THEN h
    ELSE LET k == Pick(names)
             c == Len(h) + 1
             h1 == Append(h, Node(tree.S[k].hasF, tree.S[k].F, tree.S[k].hasS, EmptyMap))
             h2 == LoadSubs(h1, c, tree.S[k], DOMAIN tree.S[k].S)
             h3 == [h2 EXCEPT ![dst].S = (k :> c) @@ @]
         IN LoadSubs(h3, dst, tree, names \ {k})

Load(h, tree) ==
    LoadSubs(Append(h, Node(tree.hasF, tree.F, tree.hasS, EmptyMap)),
             Len(h) + 1, tree, DOMAIN tree.S)

(***************************************************************************)
(* copy.deepcopy of a structure: fresh nodes for the node and everything   *)
(* below it.                                                               *)
(***************************************************************************)
RECURSIVE CopySubs(_, _, _, _)
CopySubs(h, dst, src, names) ==
    IF names = {} THEN h
    ELSE LET k == Pick(names)
             child == h[src].S[k]
             c == Len(h) + 1
             h1 == Append(h, [h[child] EXCEPT !.S = EmptyMap])
             h2 == CopySubs(h1, c, child, DOMAIN h[child].S)
             h3 == [h2 EXCEPT ![dst].S = (k :> c) @@ @]
         IN CopySubs(h3, dst, src, names \ {k})

\* a bug: the sub-structure is stored by reference
shared_reference(h, n) == [heap |-> h, id |-> n]

deepcopy(h, n) ==
    [heap |-> CopySubs(Append(h, [h[n] EXCEPT !.S = EmptyMap]), Len(h) + 1, n, DOMAIN h[n].S),
     id |-> Len(h) + 1]

(***************************************************************************)
(* merge_collection_structures(target, source), on the heap.               *)
(***************************************************************************)
\* a bug: the later type replaces the earlier one
merge_fields_last_wins(tf, sf) ==
    [f \in DOMAIN tf \cup DOMAIN sf |-> IF f \in DOMAIN sf THEN sf[f] ELSE tf[f]]

\* a bug: only fields the target already has are kept up to date
merge_fields_known_only(tf, sf) ==
    IF DOMAIN tf = {} THEN sf ELSE tf

\* for field_name, type_name in source: target_fields.setdefault(field_name, type_name)
merge_fields(tf, sf) ==
    [f \in DOMAIN tf \cup DOMAIN sf |-> IF f \in DOMAIN tf THEN tf[f] ELSE sf[f]]

RECURSIVE merge_collection_structures(_, _, _)
RECURSIVE merge_subcollections(_, _, _, _)

\* a bug: a sub-collection already in the target is overwritten by the source's
merge_one_overwrite(h, t, s, k) ==
    LET cp == deepcopy(h, h[s].S[k])
    IN [cp.heap EXCEPT ![t].S = (k :> cp.id) @@ @]

\* the body of the loop over source_subcollections.items() for sub_name = k
merge_one(h, t, s, k) ==
    IF k \in DOMAIN h[t].S
    THEN merge_collection_structures(h, h[t].S[k], h[s].S[k])
    ELSE LET cp == deepcopy(h, h[s].S[k])
         IN [cp.heap EXCEPT ![t].S = (k :> cp.id) @@ @]

merge_subcollections(h, t, s, names) ==
    IF names = {} THEN h
    ELSE LET k == Pick(names)
         IN merge_subcollections(merge_one(h, t, s, k), t, s, names \ {k})

merge_collection_structures(h, t, s) ==
    LET h1 == [h EXCEPT ![t].hasF = TRUE, ![t].F = merge_fields(h[t].F, h[s].F)]
    IN IF DOMAIN h1[s].S = {} THEN h1
       ELSE merge_subcollections([h1 EXCEPT ![t].hasS = TRUE], t, s, DOMAIN h1[s].S)

(***************************************************************************)
(* The store.  A document is its field map and its sub-collections; a      *)
(* collection is its documents in the order collection_ref.stream()        *)
(* returns them (ascending document id).  The database is the sequence of  *)
(* its root collections.                                                   *)
(***************************************************************************)
Doc(data, subs) == [data |-> data, subs |-> subs]

\* collection ids by depth: a root collection, its documents' sub-collection, ...
Levels == <<"users", "orders", "items">>

\* the field maps documents of each depth are drawn from
DataAt(lv) ==
    CASE lv = 1 -> { ("name" :> PyStr("a")),
                     ("name" :> PyStr("b")) @@ ("age" :> PyInt("3")) }
      [] lv = 2 -> { EmptyMap, ("total" :> PyInt("5")) }
      [] OTHER  -> { ("qty" :> PyInt("1")), ("qty" :> PyStr("one")) }

\* the collections of depth lv holding n documents in all (nested ones included),
\* and the documents of depth lv that are n documents in all (themselves included)
RECURSIVE CollsOf(_, _)
RECURSIVE DocsOf(_, _)
DocsOf(lv, n) ==
    IF n = 1 THEN { Doc(d, EmptyMap) : d \in DataAt(lv) }
    ELSE IF lv = Len(Levels) THEN {}
    ELSE { Doc(d, (Levels[lv + 1] :> c)) : d \in DataAt(lv), c \in CollsOf(lv + 1, n - 1) }

CollsOf(lv, n) ==
    IF n = 0 THEN { <<>> }
    ELSE UNION { { <<d>> \o c : d \in DocsOf(lv, k), c \in CollsOf(lv, n - k) } : k \in 1..n }

Databases ==
    { <<>> } \cup
    { << [id |-> Levels[1], docs |-> c] >> : c \in UNION { CollsOf(1, n) : n \in 0..MaxDocs } }

(***************************************************************************)
(* The environment.  os.environ maps the names that are set to their text; *)
(* a name that is not set is not in its domain.                            *)
(***************************************************************************)
\* os.getenv(name, default)
getenv(e, name, default) == IF name \in DOMAIN e THEN e[name] ELSE default

\* bool(os.getenv(name)): the name is set, and not to the empty string
truthy(e, name) == name \in DOMAIN e /\ e[name] # ""

\* the integers whose decimal text the model reads and writes
Numbers == 0..9 \cup { DEFAULT_SAMPLE_DOCUMENT_LIMIT }

\* str(n)
str(n) ==
    IF n = DEFAULT_SAMPLE_DOCUMENT_LIMIT THEN "100"
    ELSE <<"0", "1", "2", "3", "4", "5", "6", "7", "8", "9">>[n + 1]

\* int(text) returns a value; otherwise it raises ValueError
is_decimal(text) == \E n \in Numbers : str(n) = text

\* int(text)
int(text) == CHOOSE n \in Numbers : str(n) = text

\* the service account files there are on disk
ExistingFiles == { PROJECT_ROOT \o "/key.json" }

\* the absolute paths among the texts of GOOGLE_APPLICATION_CREDENTIALS
is_absolute(path) == path \in { PROJECT_ROOT \o "/key.json", PROJECT_ROOT \o "/gone.json" }

\* resolve_credentials_path(os.getenv("GOOGLE_APPLICATION_CREDENTIALS")): the
\* exception it raises ("none": it returns) and the path it returns
resolve_credentials_path(e) ==
    IF ~truthy(e, "GOOGLE_APPLICATION_CREDENTIALS")
    THEN [exc |-> "ValueError", full_path |-> ""]
    ELSE LET credentials_path == e["GOOGLE_APPLICATION_CREDENTIALS"]
             full_path == IF is_absolute(credentials_path) THEN credentials_path
                          ELSE PROJECT_ROOT \o "/" \o credentials_path
         IN IF full_path \notin ExistingFiles
            THEN [exc |-> "FileNotFoundError", full_path |-> full_path]
            ELSE [exc |-> "none", full_path |-> full_path]

\* the settings of each variable main reads: not set (the empty map), or a text
LimitSettings ==
    { EmptyMap } \cup { ("SAMPLE_DOCUMENT_LIMIT" :> str(v)) : v \in 0..MaxLimit }
                \cup { ("SAMPLE_DOCUMENT_LIMIT" :> "abc") }
\* SAMPLE_ORDER_FIELD is set (to the empty text) along with the limits 0 and 1
OrderFieldSettings(l) ==
    { EmptyMap } \cup
    IF l \in { ("SAMPLE_DOCUMENT_LIMIT" :> str(v)) : v \in 0..1 }
    THEN { ("SAMPLE_ORDER_FIELD" :> "") } ELSE {}
ProjectSettings ==
    { EmptyMap, ("FIRESTORE_PROJECT_ID" :> ""), ("FIRESTORE_PROJECT_ID" :> "demo") }
CredentialsSettings ==
    { EmptyMap } \cup
    { ("GOOGLE_APPLICATION_CREDENTIALS" :> p) :
        p \in { "", "key.json", "gone.json", PROJECT_ROOT \o "/key.json" } }

Environments ==
    UNION { { l @@ o @@ p @@ c : o \in OrderFieldSettings(l), p \in ProjectSettings,
                                 c \in CredentialsSettings } : l \in LimitSettings }

\* the error classes of google.api_core.exceptions the store may raise
ErrorClasses == { "FailedPrecondition", "InvalidArgument", "PermissionDenied" }

\* those client.collections() and reference.collections() are made to raise: one of
\* the classes the sampler catches around its ordered query, and one it does not
ListingErrors == { "FailedPrecondition", "PermissionDenied" }

NoExc == [cls |-> "none", site |-> "none"]
NoOutput == [written |-> FALSE, collections |-> EmptyMap]

(***************************************************************************)
(* Call frames.                                                            *)
(***************************************************************************)
\* describe_collection(collection_ref), with the state of its document_iterator
CollectionFrame(id, docs, agg, limited) ==
    [kind |-> "collection", id |-> id, docs |-> docs, aggregate |-> agg, doc_count |-> 0,
     order_field |-> IF ~limited THEN "none"
                     ELSE IF SAMPLE_ORDER_FIELD # "" THEN SAMPLE_ORDER_FIELD
                     ELSE "__name__",
     mode |-> IF limited THEN "ordered" ELSE "plain", pos |-> 0, count |-> 0,
     ordered_queries |-> IF limited THEN 1 ELSE 0,
     streams |-> IF limited THEN 0 ELSE 1,
     fallbacks |-> 0, ord_exc |-> "none", sampled |-> <<>>]

\* describe_document(doc_snapshot)
DocumentFrame(doc, node, names) ==
    [kind |-> "document", doc |-> doc, node |-> node, subcollections |-> EmptyMap,
     pending |-> names]

RECURSIVE SetToSeq(_)
SetToSeq(S) == IF S = {} THEN <<>> ELSE LET x == Pick(S) IN <<x>> \o SetToSeq(S \ {x})

Reverse(s) == [i \in 1..Len(s) |-> s[Len(s) + 1 - i]]

Top == stack[Len(stack)]
Pop == SubSeq(stack, 1, Len(stack) - 1)
ReplaceTop(fr) == [stack EXCEPT ![Len(stack)] = fr]

\* aggregate_structure = {"fields": {}, "subcollections": {}}
EmptyAggregate == Node(TRUE, EmptyMap, TRUE, EmptyMap)

\* the call describe_collection(collection_ref), up to the stream that the first
\* next(document_iterator) opens: collection_ref.stream() when SAMPLE_DOCUMENT_LIMIT is
\* 0, else the query ordered by document id, descending, limited to it
CallDescribeCollection(stk, ref) ==
    /\ heap' = Append(heap, EmptyAggregate)
    /\ stack' = Append(stk, CollectionFrame(ref.id, ref.docs, Len(heap) + 1,
                                            SAMPLE_DOCUMENT_LIMIT # 0))

(***************************************************************************)
(* The walk.                                                               *)
(***************************************************************************)
HarnessIdle == mtarget = 0 /\ msources = <<>> /\ mpair = <<>>

Init ==
    /\ env \in Environments
    /\ SAMPLE_DOCUMENT_LIMIT = DEFAULT_SAMPLE_DOCUMENT_LIMIT
    /\ SAMPLE_ORDER_FIELD = DEFAULT_SAMPLE_ORDER_FIELD
    /\ db \in Databases
    /\ pc = "main"
    /\ roots_pos = 0
    /\ stack = <<>>
    /\ heap = <<>>
    /\ structure = EmptyMap
    /\ output = NoOutput
    /\ exc = NoExc
    /\ ordering_errors = 0
    /\ HarnessIdle

\* a bug: an unset variable read as "no limit"
resolved_limit_unset_is_zero(e) == int(getenv(e, "SAMPLE_DOCUMENT_LIMIT", "0"))

\* int(os.getenv("SAMPLE_DOCUMENT_LIMIT", str(DEFAULT_SAMPLE_DOCUMENT_LIMIT)))
resolved_limit(e) ==
    int(getenv(e, "SAMPLE_DOCUMENT_LIMIT", str(DEFAULT_SAMPLE_DOCUMENT_LIMIT)))

\* a bug: the export is wrapped so that what was gathered is still written
after_uncaught_salvage == "write"

\* no handler between the store call and the end of main: the process ends
after_uncaught == "aborted"

\* a bug: every error of the ordered query is taken for a missing index
is_ordering_error_any(cls) == cls \in ErrorClasses

\* except (FailedPrecondition, InvalidArgument)
is_ordering_error(cls) == cls \in { "FailedPrecondition", "InvalidArgument" }

Raise(cls, site) ==
    /\ pc' = after_uncaught
    /\ exc' = [cls |-> cls, site |-> site]

\* main(), up to the call of export_structure: the two globals are set from the
\* environment, then the project id and the credentials file are required
main_configure ==
    /\ pc = "main"
    /\ LET limit_text == getenv(env, "SAMPLE_DOCUMENT_LIMIT",
                                str(DEFAULT_SAMPLE_DOCUMENT_LIMIT))
           credentials == resolve_credentials_path(env)
       IN IF ~is_decimal(limit_text)
          THEN /\ Raise("ValueError", "int")
               /\ UNCHANGED <<env, SAMPLE_DOCUMENT_LIMIT, SAMPLE_ORDER_FIELD>>
          ELSE /\ SAMPLE_DOCUMENT_LIMIT' = resolved_limit(env)
               /\ SAMPLE_ORDER_FIELD' =
                      getenv(env, "SAMPLE_ORDER_FIELD", DEFAULT_SAMPLE_ORDER_FIELD)
               /\ IF ~truthy(env, "FIRESTORE_PROJECT_ID")
                  THEN Raise("ValueError", "main") /\ UNCHANGED env
                  ELSE IF credentials.exc # "none"
                  THEN Raise(credentials.exc, "resolve_credentials_path") /\ UNCHANGED env
                  ELSE /\ env' = [env EXCEPT !["GOOGLE_APPLICATION_CREDENTIALS"] =
                                                credentials.full_path]
                       /\ pc' = "export"
                       /\ UNCHANGED exc
    /\ UNCHANGED <<db, roots_pos, stack, heap, structure, output,
                   ordering_errors, mtarget, msources, mpair>>

\* export_structure: the next collection_ref of client.collections(), described
export_describe_root ==
    /\ pc = "export" /\ stack = <<>>
    /\ roots_pos < Len(db)
    /\ CallDescribeCollection(<<>>, db[roots_pos + 1])
    /\ UNCHANGED <<env, SAMPLE_DOCUMENT_LIMIT, SAMPLE_ORDER_FIELD, db, pc, roots_pos, structure, output, exc,
                   ordering_errors, mtarget, msources, mpair>>

\* export_structure: client.collections() is exhausted, return structure
export_return ==
    /\ pc = "export" /\ stack = <<>>
    /\ roots_pos = Len(db)
    /\ pc' = "write"
    /\ UNCHANGED <<env, SAMPLE_DOCUMENT_LIMIT, SAMPLE_ORDER_FIELD, db, roots_pos, stack, heap, structure,
                   output, exc, ordering_errors, mtarget, msources, mpair>>

\* export_structure: client.collections() raises
export_collections_raise ==
    /\ pc = "export" /\ stack = <<>>
    /\ \E cls \in ListingErrors : Raise(cls, "client.collections")
    /\ UNCHANGED <<env, SAMPLE_DOCUMENT_LIMIT, SAMPLE_ORDER_FIELD, db, roots_pos, stack, heap, structure,
                   output, ordering_errors, mtarget, msources, mpair>>

\* write_output(structure, output_path)
write_output ==
    /\ pc = "write"
    /\ output' = [written |-> TRUE,
                  collections |-> [c \in DOMAIN structure |-> Tree(heap, structure[c])]]
    /\ pc' = "done"
    /\ UNCHANGED <<env, SAMPLE_DOCUMENT_LIMIT, SAMPLE_ORDER_FIELD, db, roots_pos, stack, heap, structure, exc,
                   ordering_errors, mtarget, msources, mpair>>

Running(kind) == pc = "export" /\ stack # <<>> /\ Top.kind = kind

\* what the open stream of a frame yields, in order: the ordered query (order field
\* "__name__", the default) gives the documents by descending id, cut at the limit
StreamOf(fr) ==
    IF fr.mode = "ordered"
    THEN SubSeq(Reverse(fr.docs), 1, Min(SAMPLE_DOCUMENT_LIMIT, Len(fr.docs)))
    ELSE fr.docs

\* the fallback loop has counted SAMPLE_DOCUMENT_LIMIT documents and breaks
FallbackBreaks(fr) == fr.mode = "fallback" /\ fr.count >= SAMPLE_DOCUMENT_LIMIT

Streaming(fr) == fr.mode \in { "plain", "ordered", "fallback" }

\* the sampler yields a document and describe_collection calls describe_document,
\* which computes the field types and starts listing the sub-collections
stream_yield ==
    /\ Running("collection") /\ Streaming(Top)
    /\ ~FallbackBreaks(Top)
    /\ Top.pos < Len(StreamOf(Top))
    /\ LET doc == StreamOf(Top)[Top.pos + 1]
           field_types == [f \in DOMAIN doc.data |-> type_name(doc.data[f])]
           fr == [Top EXCEPT !.pos = @ + 1,
                             !.count = IF Top.mode = "fallback" THEN @ + 1 ELSE @]
       IN /\ heap' = Append(heap, Node(TRUE, field_types, FALSE, EmptyMap))
          /\ stack' = Append(ReplaceTop(fr),
                             DocumentFrame(doc, Len(heap) + 1, SetToSeq(DOMAIN doc.subs)))
    /\ UNCHANGED <<env, SAMPLE_DOCUMENT_LIMIT, SAMPLE_ORDER_FIELD, db, pc, roots_pos, structure, output, exc,
                   ordering_errors, mtarget, msources, mpair>>

\* the sampler ends: its stream is exhausted, or the fallback loop breaks
stream_exhausted ==
    /\ Running("collection") /\ Streaming(Top)
    /\ FallbackBreaks(Top) \/ Top.pos = Len(StreamOf(Top))
    /\ stack' = ReplaceTop([Top EXCEPT !.mode = "exhausted"])
    /\ UNCHANGED <<env, SAMPLE_DOCUMENT_LIMIT, SAMPLE_ORDER_FIELD, db, pc, roots_pos, heap, structure, output,
                   exc, ordering_errors, mtarget, msources, mpair>>

\* the ordered query raises an error the sampler catches: fall back to
\* collection_ref.stream()
stream_raise_caught ==
    /\ Running("collection") /\ Top.mode = "ordered"
    /\ ordering_errors < MaxOrderingErrors
    /\ ordering_errors' = ordering_errors + 1
    /\ \E cls \in ErrorClasses :
         /\ is_ordering_error(cls)
         /\ stack' = ReplaceTop([Top EXCEPT !.mode = "fallback", !.pos = 0, !.count = 0,
                                            !.streams = @ + 1, !.fallbacks = @ + 1,
                                            !.ord_exc = cls])
    /\ UNCHANGED <<env, SAMPLE_DOCUMENT_LIMIT, SAMPLE_ORDER_FIELD, db, pc, roots_pos, heap, structure, output,
                   exc, mtarget, msources, mpair>>

\* a stream raises an error nothing catches
stream_raise_uncaught ==
    /\ Running("collection") /\ Streaming(Top)
    /\ ~FallbackBreaks(Top)
    /\ \E cls \in ErrorClasses :
         /\ Top.mode = "ordered" => ~is_ordering_error(cls)
         /\ Raise(cls, Top.mode)
         /\ stack' = ReplaceTop([Top EXCEPT !.ord_exc =
                                   IF Top.mode = "ordered" THEN cls ELSE @])
    /\ UNCHANGED <<env, SAMPLE_DOCUMENT_LIMIT, SAMPLE_ORDER_FIELD, db, roots_pos, heap, structure, output,
                   ordering_errors, mtarget, msources, mpair>>

\* describe_document: the next subcollection_ref of reference.collections(), described
document_describe_subcollection ==
    /\ Running("document") /\ Top.pending # <<>>
    /\ LET name == Head(Top.pending)
       IN CallDescribeCollection(stack, [id |-> name, docs |-> Top.doc.subs[name]])
    /\ UNCHANGED <<env, SAMPLE_DOCUMENT_LIMIT, SAMPLE_ORDER_FIELD, db, pc, roots_pos, structure, output, exc,
                   ordering_errors, mtarget, msources, mpair>>

\* describe_document: reference.collections() raises
document_collections_raise ==
    /\ Running("document")
    /\ \E cls \in ListingErrors : Raise(cls, "reference.collections")
    /\ UNCHANGED <<env, SAMPLE_DOCUMENT_LIMIT, SAMPLE_ORDER_FIELD, db, roots_pos, stack, heap, structure,
                   output, ordering_errors, mtarget, msources, mpair>>

\* describe_document returns its structure; describe_collection merges it into the
\* aggregate and counts the document
describe_document_return ==
    /\ Running("document") /\ Top.pending = <<>>
    /\ LET d == Top
           c == stack[Len(stack) - 1]
           h1 == IF DOMAIN d.subcollections # {}
                 THEN [heap EXCEPT ![d.node].hasS = TRUE, ![d.node].S = d.subcollections]
                 ELSE heap
       IN /\ heap' = merge_collection_structures(h1, c.aggregate, d.node)
          /\ stack' = [Pop EXCEPT ![Len(stack) - 1] =
                         [c EXCEPT !.doc_count = @ + 1,
                                   !.sampled = Append(@, d.doc.data)]]
    /\ UNCHANGED <<env, SAMPLE_DOCUMENT_LIMIT, SAMPLE_ORDER_FIELD, db, pc, roots_pos, structure, output, exc,
                   ordering_errors, mtarget, msources, mpair>>

\* the end of describe_collection: empty "subcollections" and "fields" are popped
strip_empty(h, n) ==
    [h EXCEPT ![n].hasS = IF DOMAIN h[n].S = {} THEN FALSE ELSE @,
              ![n].hasF = IF DOMAIN h[n].F = {} THEN FALSE ELSE @]

\* describe_collection returns the aggregate to describe_document or export_structure
describe_collection_return ==
    /\ Running("collection") /\ Top.mode = "exhausted"
    /\ heap' = strip_empty(heap, Top.aggregate)
    /\ IF Len(stack) = 1
       THEN /\ structure' = (Top.id :> Top.aggregate) @@ structure
            /\ roots_pos' = roots_pos + 1
            /\ stack' = <<>>
       ELSE /\ stack' = [Pop EXCEPT ![Len(stack) - 1] =
                           [@ EXCEPT !.subcollections = (Top.id :> Top.aggregate) @@ @,
                                     !.pending = Tail(@)]]
            /\ UNCHANGED <<structure, roots_pos>>
    /\ UNCHANGED <<env, SAMPLE_DOCUMENT_LIMIT, SAMPLE_ORDER_FIELD, db, pc, output, exc, ordering_errors, mtarget, msources, mpair>>

Next ==
    \/ main_configure
    \/ export_describe_root
    \/ export_return
    \/ export_collections_raise
    \/ write_output
    \/ stream_yield
    \/ stream_exhausted
    \/ stream_raise_caught
    \/ stream_raise_uncaught
    \/ document_describe_subcollection
    \/ document_collections_raise
    \/ describe_document_return
    \/ describe_collection_return

Spec == Init /\ [][Next]_vars

(***************************************************************************)
(* merge_collection_structures on its own: structures of the shapes        *)
(* describe_document and describe_collection return are merged, one after  *)
(* the other, into one accumulator (as describe_collection does), or two   *)
(* of them into each other in both orders.                                 *)
(***************************************************************************)
\* what describe_collection returns: empty "fields" / "subcollections" are absent
Returned(F, S) == Node(DOMAIN F # {}, F, DOMAIN S # {}, S)

ItemsStructures == { Returned(F, EmptyMap) : F \in { EmptyMap, ("qty" :> "int") } }

OrdersStructures ==
    { Returned(F, S) :
        F \in { EmptyMap, ("total" :> "int"), ("total" :> "str") },
        S \in { EmptyMap } \cup { ("items" :> t) : t \in ItemsStructures } }

\* what describe_document returns: "fields" always, "subcollections" when there are some
DocumentStructures ==
    { Node(TRUE, F, DOMAIN S # {}, S) :
        F \in { EmptyMap, ("name" :> "str"), ("name" :> "int"), ("age" :> "int"),
                ("name" :> "str") @@ ("age" :> "int") },
        S \in { EmptyMap } \cup { ("orders" :> t) : t \in OrdersStructures } }

InitMerge ==
    /\ env = EmptyMap
    /\ SAMPLE_DOCUMENT_LIMIT = DEFAULT_SAMPLE_DOCUMENT_LIMIT
    /\ SAMPLE_ORDER_FIELD = DEFAULT_SAMPLE_ORDER_FIELD
    /\ db = <<>>
    /\ pc = "merge"
    /\ roots_pos = 0
    /\ stack = <<>>
    /\ heap = << EmptyAggregate >>
    /\ structure = EmptyMap
    /\ output = NoOutput
    /\ exc = NoExc
    /\ ordering_errors = 0
    /\ mtarget = 1
    /\ msources = <<>>
    /\ mpair = <<>>

\* merge_collection_structures(aggregate_structure, doc_structure), for the next
\* doc_structure
merge_into_aggregate ==
    /\ pc = "merge" /\ mpair = <<>>
    /\ Len(msources) < MaxMerges
    /\ \E tree \in DocumentStructures :
         LET h1 == Load(heap, tree)
             src == Len(heap) + 1
         IN /\ heap' = merge_collection_structures(h1, mtarget, src)
            /\ msources' = Append(msources, [root |-> src, tree |-> tree])
    /\ UNCHANGED <<env, SAMPLE_DOCUMENT_LIMIT, SAMPLE_ORDER_FIELD, db, pc, roots_pos, stack, structure, output,
                   exc, ordering_errors, mtarget, mpair>>

\* merge_collection_structures(a, b) and, on copies of the two, (b, a)
merge_both_orders ==
    /\ pc = "merge" /\ mpair = <<>> /\ msources = <<>>
    /\ \E ta \in DocumentStructures \cup OrdersStructures :
       \E tb \in DocumentStructures \cup OrdersStructures :
         LET a1 == Len(heap) + 1
             h1 == Load(heap, ta)
             b1 == Len(h1) + 1
             h2 == Load(h1, tb)
             a2 == Len(h2) + 1
             h3 == Load(h2, ta)
             b2 == Len(h3) + 1
             h4 == Load(h3, tb)
         IN /\ heap' = merge_collection_structures(
                         merge_collection_structures(h4, a1, b1), b2, a2)
            /\ mpair' = << [a |-> ta, b |-> tb, ab |-> a1, ba |-> b2] >>
    /\ UNCHANGED <<env, SAMPLE_DOCUMENT_LIMIT, SAMPLE_ORDER_FIELD, db, pc, roots_pos, stack, structure, output,
                   exc, ordering_errors, mtarget, msources>>

NextMerge ==
    \/ merge_into_aggregate
    \/ merge_both_orders

SpecMerge == InitMerge /\ [][NextMerge]_vars

(***************************************************************************)
(* Properties of the merge.                                                *)
(***************************************************************************)
\* the nodes reachable from node n
RECURSIVE Reach(_, _)
Reach(h, n) == {n} \cup UNION { Reach(h, h[n].S[k]) : k \in DOMAIN h[n].S }

\* tree t holds every field and, recursively, every sub-collection of tree u
RECURSIVE Contains(_, _)
Contains(t, u) ==
    /\ DOMAIN u.F \subseteq DOMAIN t.F
    /\ \A k \in DOMAIN u.S : k \in DOMAIN t.S /\ Contains(t.S[k], u.S[k])

\* the sources, in merge order, that have sub-collection s with field f in it
SourcesWith(s, f) ==
    { i \in 1..Len(msources) :
        /\ s \in DOMAIN msources[i].tree.S
        /\ f \in DOMAIN msources[i].tree.S[s].F }

FirstOf(I) == CHOOSE i \in I : \A j \in I : i <= j

\* the aggregate's entry for every sub-collection name of a merged source contains
\* that source's sub-structure, field types being those of the first source with it
C7_MergedState ==
    LET T == Tree(heap, mtarget)
    IN \A i \in 1..Len(msources) : \A s \in DOMAIN msources[i].tree.S :
         /\ s \in DOMAIN T.S
         /\ Contains(T.S[s], msources[i].tree.S[s])
         /\ \A f \in DOMAIN msources[i].tree.S[s].F :
              T.S[s].F[f] = msources[FirstOf(SourcesWith(s, f))].tree.S[s].F[f]

\* a step keeps every entry of every "subcollections" dictionary, on the same node
C7_EntriesKept ==
    \A n \in 1..Len(heap) : \A s \in DOMAIN heap[n].S :
        s \in DOMAIN heap'[n].S /\ heap'[n].S[s] = heap[n].S[s]

\* C7: a sub-collection name found under several merged documents is merged
\* recursively: the aggregate's entry for it holds every field and every nested
\* sub-collection any of them has under that name, the field types being those of the
\* first document that has the field; and no step removes an entry of a
\* "subcollections" dictionary or makes it refer to another dictionary.
C7_SubcollectionsMergedRecursively == [](C7_MergedState) /\ [][C7_EntriesKept]_vars

\* two merged documents have "orders", with different fields and a nested
\* sub-collection under the second only
C7_Witness ==
    /\ Len(msources) = 2
    /\ \A i \in 1..2 : "orders" \in DOMAIN msources[i].tree.S
    /\ DOMAIN msources[1].tree.S["orders"].F = {"total"}
    /\ DOMAIN msources[2].tree.S["orders"].F = {}
    /\ DOMAIN msources[2].tree.S["orders"].S = {"items"}
    /\ DOMAIN msources[1].tree.S["orders"].S = {}
    /\ DOMAIN Tree(heap, mtarget).S["orders"].S = {"items"}

UnionOfFields(fa, fb) ==
    [f \in DOMAIN fa \cup DOMAIN fb |-> IF f \in DOMAIN fa THEN fa[f] ELSE fb[f]]

\* C9: when the field maps of a and b share no name, merging b into a and merging a
\* into b leave the same field map in the target: the union of the two, each field
\* with its own type.
C9_DisjointFieldsCommute ==
    \A i \in 1..Len(mpair) :
        LET p == mpair[i]
        IN DOMAIN p.a.F \cap DOMAIN p.b.F = {} =>
             /\ heap[p.ab].hasF /\ heap[p.ba].hasF
             /\ heap[p.ab].F = heap[p.ba].F
             /\ heap[p.ab].F = UnionOfFields(p.a.F, p.b.F)

C9_Witness ==
    /\ mpair # <<>>
    /\ DOMAIN mpair[1].a.F = {"name"}
    /\ DOMAIN mpair[1].b.F = {"age"}
    /\ DOMAIN heap[mpair[1].ab].F = {"name", "age"}

\* C10: a merge leaves its source as it was, and so does every later merge into the
\* same target: the tree of every source merged so far is the tree it had when it was
\* merged, and no dictionary of the target is a dictionary of a source.
C10_SourcesUntouched ==
    \A i \in 1..Len(msources) :
        /\ Tree(heap, msources[i].root) = msources[i].tree
        /\ Reach(heap, mtarget) \cap Reach(heap, msources[i].root) = {}

\* the second merge went into the sub-structure copied from the first source, and
\* changed it
C10_Witness ==
    /\ Len(msources) = 2
    /\ \A i \in 1..2 : "orders" \in DOMAIN msources[i].tree.S
    /\ Tree(heap, heap[mtarget].S["orders"]) # msources[1].tree.S["orders"]

(***************************************************************************)
(* Properties of the walk.                                                 *)
(***************************************************************************)
\* the describe_collection calls in progress
CollectionFrames == { stack[i] : i \in { j \in 1..Len(stack) : stack[j].kind = "collection" } }

OrderingErrors == { "FailedPrecondition", "InvalidArgument" }

\* C1: with a limit L > 0 and more than L documents in the collection, a finished
\* describe_collection has described exactly L documents, wherever the ordered query
\* raised its ordering error.
C1_ExactlyLimitDescribed ==
    \A fr \in CollectionFrames :
        (/\ fr.mode = "exhausted"
         /\ SAMPLE_DOCUMENT_LIMIT > 0
         /\ Len(fr.docs) > SAMPLE_DOCUMENT_LIMIT)
        => fr.doc_count = SAMPLE_DOCUMENT_LIMIT

\* what the environment says of SAMPLE_DOCUMENT_LIMIT
LimitUnset == "SAMPLE_DOCUMENT_LIMIT" \notin DOMAIN env
LimitSetTo(n) == ~LimitUnset /\ env["SAMPLE_DOCUMENT_LIMIT"] = str(n)

\* C2, as the spec states it: with the limit 0 or SAMPLE_DOCUMENT_LIMIT unset, no
\* ordered query is issued and every document of the collection is described.
C2_UnboundedWhenZeroOrUnset ==
    (pc # "main" /\ (LimitUnset \/ LimitSetTo(0))) =>
        \A fr \in CollectionFrames :
            /\ fr.ordered_queries = 0
            /\ fr.mode = "exhausted" => fr.doc_count = Len(fr.docs)

\* C2, amended: with SAMPLE_DOCUMENT_LIMIT set to 0 no ordered query is issued and
\* every document of the collection is described; with SAMPLE_DOCUMENT_LIMIT unset the
\* limit is DEFAULT_SAMPLE_DOCUMENT_LIMIT and the sampler issues the ordered query.
C2_UnboundedWhenZeroDefaultWhenUnset ==
    /\ (pc # "main" /\ LimitSetTo(0)) =>
          \A fr \in CollectionFrames :
              /\ fr.ordered_queries = 0
              /\ fr.fallbacks = 0
              /\ fr.mode = "exhausted" => fr.doc_count = Len(fr.docs)
    /\ (pc # "main" /\ LimitUnset) =>
          /\ SAMPLE_DOCUMENT_LIMIT = DEFAULT_SAMPLE_DOCUMENT_LIMIT
          /\ \A fr \in CollectionFrames : fr.ordered_queries = 1

\* limit 0: a collection of two or more documents has been described in full
C2_Witness ==
    /\ LimitSetTo(0)
    /\ \E fr \in CollectionFrames :
         fr.mode = "exhausted" /\ Len(fr.docs) >= 2 /\ fr.doc_count = Len(fr.docs)

\* the positions, in sampling order, of the sampled documents that have field f
SampledWith(fr, f) == { j \in 1..Len(fr.sampled) : f \in DOMAIN fr.sampled[j] }

\* C3: in every describe_collection, the aggregate's field map holds exactly the
\* fields of the documents sampled so far, each with the type name it has in the first
\* sampled document that has it.
C3_FirstTypeWins ==
    \A fr \in CollectionFrames :
        LET agg == heap[fr.aggregate]
            seen == UNION { DOMAIN fr.sampled[j] : j \in 1..Len(fr.sampled) }
        IN /\ agg.hasF
           /\ DOMAIN agg.F = seen
           /\ \A f \in seen :
                agg.F[f] = type_name(fr.sampled[FirstOf(SampledWith(fr, f))][f])

\* a finished collection whose second sampled document gives a field another type
\* than the first
C3_Witness ==
    \E fr \in CollectionFrames :
        /\ fr.mode = "exhausted"
        /\ Len(fr.sampled) >= 2
        /\ \E f \in DOMAIN fr.sampled[1] \cap DOMAIN fr.sampled[2] :
             type_name(fr.sampled[1][f]) # type_name(fr.sampled[2][f])

\* no node of tree t has an empty "fields" or an empty "subcollections"
RECURSIVE OmitIfEmpty(_)
OmitIfEmpty(t) ==
    /\ t.hasF => DOMAIN t.F # {}
    /\ t.hasS => DOMAIN t.S # {}
    /\ \A k \in DOMAIN t.S : OmitIfEmpty(t.S[k])

\* C4: no node of a structure describe_collection has returned to export_structure
\* has a "fields" or "subcollections" key mapped to an empty map, at any depth.
C4_OmitIfEmptyEverywhere ==
    \A c \in DOMAIN structure : OmitIfEmpty(Tree(heap, structure[c]))

\* C5: a describe_collection falls back at most once, and exactly when its ordered
\* query raised FailedPrecondition or InvalidArgument; then that error does not
\* propagate and the unordered stream yields up to the limit.  Any other error of the
\* ordered query propagates, with no unordered stream opened.
C5_FallbackOnlyOnOrderingErrors ==
    /\ \A fr \in CollectionFrames :
         /\ fr.fallbacks <= 1
         /\ fr.fallbacks = 1 <=> fr.ord_exc \in OrderingErrors
         /\ fr.ord_exc \in OrderingErrors =>
              /\ fr.mode \in { "fallback", "exhausted" }
              /\ fr.streams = 1
              /\ fr.count <= SAMPLE_DOCUMENT_LIMIT
              /\ fr.mode = "exhausted" =>
                   fr.count = Min(SAMPLE_DOCUMENT_LIMIT, Len(fr.docs))
         /\ fr.ord_exc \notin OrderingErrors \cup { "none" } =>
              /\ pc = "aborted"
              /\ exc = [cls |-> fr.ord_exc, site |-> "ordered"]
              /\ fr.streams = 0
              /\ fr.fallbacks = 0
    /\ exc.site = "ordered" => exc.cls \notin OrderingErrors

\* an ordered query raised an ordering error after it had yielded a document, and the
\* fallback has run to its end
C5_Witness ==
    \E fr \in CollectionFrames :
        /\ fr.ord_exc \in OrderingErrors
        /\ fr.mode = "exhausted"
        /\ fr.count >= 1
        /\ fr.doc_count > fr.count

\* C6: once a store error propagates, main is over: export_structure has returned
\* nothing and write_output is not called.
C6_UncaughtErrorAborts ==
    /\ exc # NoExc => pc = "aborted" /\ ~output.written
    /\ pc \in { "write", "done" } => exc = NoExc
    /\ output.written => exc = NoExc /\ pc = "done"

\* listing the sub-collections of a nested document fails after documents of the root
\* collection were described
C6_Witness ==
    /\ exc.site = "reference.collections"
    /\ Len(stack) >= 4
    /\ stack[1].doc_count >= 1

ExampleDoc1 ==
    Doc(("name" :> PyStr("a")), ("orders" :> << Doc(("total" :> PyInt("5")), EmptyMap) >>))
ExampleDoc2 ==
    Doc(("name" :> PyStr("b")) @@ ("age" :> PyInt("3")), EmptyMap)
ExampleDatabases ==
    { << [id |-> "users", docs |-> << ExampleDoc1, ExampleDoc2 >>] >>,
      << [id |-> "users", docs |-> << ExampleDoc2, ExampleDoc1 >>] >> }

ExampleExported(str_tag, int_tag) ==
    /\ DOMAIN output.collections = {"users"}
    /\ LET users == output.collections["users"]
       IN /\ users.hasF /\ users.F = ("name" :> str_tag) @@ ("age" :> int_tag)
          /\ users.hasS /\ DOMAIN users.S = {"orders"}
          /\ users.S["orders"].hasF /\ users.S["orders"].F = ("total" :> int_tag)

\* C8, as the spec states it: the example database, exported with no limit, gives
\* users.fields = {name: string, age: integer} and orders.fields = {total: integer}.
C8_ExampleWithSpecTags ==
    (pc = "done" /\ db \in ExampleDatabases /\ SAMPLE_DOCUMENT_LIMIT = 0)
        => ExampleExported("string", "integer")

\* C8, amended: the type tags are Python's class names: users.fields =
\* {name: str, age: int}, users.subcollections has the one entry orders, and
\* orders.fields = {total: int}, in whichever order the store returns the documents.
C8_ExampleWithPythonTags ==
    (pc = "done" /\ db \in ExampleDatabases /\ SAMPLE_DOCUMENT_LIMIT = 0)
        => ExampleExported("str", "int")

\* the example database, doc2 returned first, has been exported with no limit
C8_Witness ==
    /\ pc = "done" /\ SAMPLE_DOCUMENT_LIMIT = 0
    /\ db = << [id |-> "users", docs |-> << ExampleDoc2, ExampleDoc1 >>] >>

====
